---- MODULE Spec2Model ----
(***************************************************************************)
(* A model of uptest.py: the FileWrapper chunk source and the UploadTester *)
(* client (authentication, chunk PUTs, finalize POST, single-shot POST,    *)
(* reset).  The file content is immutable, so a byte is identified by its  *)
(* position and a block of data is the pair <<lo, hi>> of the file range   *)
(* [lo, hi) it holds.  The remote service is a black box: every response   *)
(* (status, offset, url, token) is chosen nondeterministically.  Response  *)
(* bodies are well-formed JSON: a chunk response carries url and offset;   *)
(* only the token of an authentication response may be missing.           *)
(***************************************************************************)
EXTENDS Integers, Sequences, FiniteSets, TLC

\* ------------------------------------------------------------------ bounds
MaxSize == 3        \* file sizes 0..MaxSize
MaxChunk == 2       \* chunk sizes 1..MaxChunk
MaxCalls == 2       \* upload() calls made on one client
MaxBias == 1        \* FileWrapper start bias 0..MaxBias
MaxPos == 5         \* largest file position a wrapper call may start from

\* --------------------------------------------------------------- constants
NoneInt == -1                       \* Python None in an integer-valued slot
NoneStr == "None"                   \* Python None in a string-valued slot
AUTHURL == "api/rest/token/"
UPLOADURL == "api/rest/aois/"
ResourceUrls == {"res1", "res2"}    \* urls the server may allocate
Tokens == {"t1", "t2"}              \* tokens the server may return
Names == {"a.zip", "b.zip"}         \* upload names
Statuses == {200, 201, 500}         \* ok, another success status, an error
CodesOk == 200
NoData == << >>

VARIABLES
    \* FileWrapper and the file under it
    file_length,    \* size of the file on disk
    blocksize,      \* FileWrapper.blocksize
    start,          \* FileWrapper.start
    end,            \* FileWrapper.end (NoneInt when not configured)
    pos,            \* position of the shared file object (filelike.tell())
    \* UploadTester
    login,          \* self.login
    filename,       \* self.filename
    md5,            \* self.md5
    comment,        \* self.comment
    parent_arg,     \* the parent_aoi argument of the constructor
    parent_aoi,     \* self.parent_aoi
    _url,           \* self._url
    _token,         \* self._token
    _header,        \* self._header
    \* control
    pc,             \* where the client is: idle/done/failed between calls,
                    \* put_chunk/post_complete/post_upload inside upload()
    chunk_mode,     \* the chunk_upload argument of the current call
    failure,        \* why the last call failed: "", "auth" or "http"
    \* the wire
    last,           \* the last HTTP request issued
    resp,           \* the response it received
    \* history of the current upload() call
    calls,          \* upload() calls made so far
    nAuth, nPut, nFinal, nPost,   \* requests issued by the current call
    errAt,          \* number of the request of this call that got an error status (0: none)
    allOk,          \* every response of this call was a success
    sent,           \* file bytes carried by the upload requests of this call
    \* history of the session
    authTotal,      \* authentication requests issued by this client
    issued,         \* tokens the server has returned to this client
    putOk,          \* a chunk PUT of this session got a success status
    allocated,      \* the url in the first success response to a chunk PUT of this session
    afterReset,     \* reset() was the last operation of the caller
    callFromReset,  \* the current call started from construction or right after reset()
    resetArg,       \* new_name of the last reset()
    prevStart,      \* Content-Range start of the last chunk PUT of this session (NoneInt: none)
    acked,          \* file bytes of the chunk PUTs of this session that got a success status
    \* the command line
    no_chunks,      \* args.no_chunks
    printed,        \* the url main has printed (NoneStr: nothing yet)
    \* history of the FileWrapper driven on its own
    chunks,         \* blocks returned by next() since construction, nothing else called
    pure,           \* only next() has been called since construction
    ret             \* outcome of the last wrapper call

fwvars == <<file_length, blocksize, start, end, pos>>
clvars == <<login, filename, md5, _url, _token, _header, pc, chunk_mode, failure>>
wirevars == <<last, resp>>
callvars == <<calls, nAuth, nPut, nFinal, nPost, errAt, allOk, sent>>
sessvars == <<authTotal, issued, putOk, allocated, afterReset, callFromReset, resetArg,
             prevStart, acked>>
cfgvars == <<comment, parent_arg, parent_aoi, no_chunks>>
itervars == <<chunks, pure, ret>>
vars == <<fwvars, clvars, wirevars, callvars, sessvars, cfgvars, printed, itervars>>

\* ------------------------------------------------------------ the file
\* Python truthiness of an integer-or-None value
TruthyInt(x) == x # NoneInt /\ x # 0

\* filelike.read(n) at position p: the block read; the position moves to its end.
\* A negative n reads to end of file; at or past end of file nothing is read.
ReadFile(p, n) ==
    LET eof == IF p > file_length THEN p ELSE file_length
        hi == IF n < 0 THEN eof ELSE IF p + n < eof THEN p + n ELSE eof
    IN <<p, hi>>

Empty(data) == data[1] = data[2]
Bytes(data) == IF data = NoData THEN {} ELSE data[1] .. (data[2] - 1)

\* generate_file_md5: the digest of everything read, block by block, up to
\* end of file; a digest is identified by the byte range it was fed.
RECURSIVE Md5Feed(_, _, _)
Md5Feed(p, fed, bs) ==
    LET buf == ReadFile(p, bs)
    IN IF Empty(buf) THEN fed ELSE Md5Feed(buf[2], <<fed[1], buf[2]>>, bs)

Md5BlockSize == 256
generate_file_md5 == <<"md5">> \o Md5Feed(0, <<0, 0>>, Md5BlockSize)

\* ------------------------------------------------------------ FileWrapper
\* a seek that leaves the file object where it is
seekNowhere(position) == pos

\* FileWrapper.seek: the position the file object is moved to
seek(position) == position + start

\* a _read that takes a block shorter than blocksize for the end of the file
_readDropsShort(key) ==
    LET data == ReadFile(pos, blocksize)
    IN [data |-> data, pos |-> data[2],
        raised |-> data[2] - data[1] < blocksize]

\* FileWrapper._read: the data read, the position the file object is left
\* at, and whether IndexError is raised
_read(key) ==
    LET current_position == pos
        p1 == IF TruthyInt(key) THEN seek(blocksize * key) ELSE pos
        bs == IF TruthyInt(end) /\ p1 + blocksize > end THEN end - p1 ELSE blocksize
        data == ReadFile(p1, bs)
        p2 == IF TruthyInt(key) THEN seek(current_position) ELSE data[2]
    IN [data |-> data, pos |-> p2, raised |-> Empty(data)]

\* a next that stops one block early: nothing is returned once the block
\* read reaches the end of the file
nextStopsEarly ==
    LET r == _read(NoneInt)
    IN [r EXCEPT !.raised = (r.data[2] >= file_length)]

\* a next that reads a block and leaves the cursor where it was
nextNoAdvance ==
    LET r == _read(NoneInt)
    IN [r EXCEPT !.pos = pos]

\* FileWrapper.next: IndexError becomes StopIteration
next == _read(NoneInt)

\* FileWrapper.__getitem__
getitem(key) == _read(key)

\* ------------------------------------------------------------ UploadTester
NoHeader == [set |-> FALSE, auth |-> << >>, cr |-> << >>]

\* Python truthiness of self._header: None and the empty dict are falsy
TruthyHeader(h) == h.set /\ (h.auth # << >> \/ h.cr # << >>)

\* a token property that does not look at the cached token
NeedsAuthRefresh == ~TruthyHeader(_header) /\ login

\* the token property issues an authentication request
NeedsAuth == ~TruthyHeader(_header) /\ login /\ _token = NoneStr

\* a header that carries Authorization whether or not self.login is set
headerAlwaysAuth ==
    IF TruthyHeader(_header) THEN _header
    ELSE [set |-> TRUE, auth |-> <<"Token", _token>>, cr |-> << >>]

\* UploadTester.header, once the token is available
header ==
    IF TruthyHeader(_header) THEN _header
    ELSE [set |-> TRUE,
          auth |-> IF login THEN <<"Token", _token>> ELSE << >>,
          cr |-> << >>]

\* a params that always carries the checksum
paramsWithMd5 ==
    [filename |-> filename, comment |-> comment,
     parent_object_id |-> parent_aoi, md5 |-> md5]

\* UploadTester.params: a new dict on every use, without an md5 entry
params ==
    [filename |-> filename, comment |-> comment,
     parent_object_id |-> parent_aoi, md5 |-> << >>]

\* post_complete, post_upload: params['md5'] = self.md5
paramsMd5 == [params EXCEPT !.md5 = md5]

\* a chunk end that is not clamped to the file length
chunkendNoClamp(current_position) == current_position + blocksize

\* put_chunk: the end of the chunk announced in Content-Range
chunkend(current_position) ==
    IF current_position + blocksize < file_length
    THEN current_position + blocksize
    ELSE file_length

\* UploadTester.url
url == IF _url = NoneStr THEN UPLOADURL ELSE _url

\* Response.raise_for_status raises on 4xx and 5xx
IsError(status) == status >= 400

\* put_chunk: self._url after the response to a chunk PUT
UrlAfterPut(status, u) ==
    IF _url = NoneStr /\ status = CodesOk THEN u ELSE _url

\* a loop that does not look at the status of the chunk response
AfterPutNoRaise(status) == "put_chunk"

\* upload: where the loop goes after put_chunk().raise_for_status()
AfterPut(status) == IF IsError(status) THEN "failed" ELSE "put_chunk"

\* a finalize whose status is not looked at
AfterFinalizeNoRaise(status) == "done"

\* upload: post_complete().raise_for_status(), then break
AfterFinalize(status) == IF IsError(status) THEN "failed" ELSE "done"

\* upload: post_upload().raise_for_status()
AfterPost(status) == IF IsError(status) THEN "failed" ELSE "done"

\* a token property that swallows the missing token
AfterAuthSwallow(t) == pc

\* token: a response without a token raises ValueError out of upload()
AfterAuth(t) == IF t = NoneStr THEN "failed" ELSE pc

NoReq == [kind |-> "none", target |-> "", auth |-> << >>, cr |-> << >>,
          filename |-> "", comment |-> "", parent_object_id |-> NoneStr,
          md5 |-> << >>, payload |-> NoData]

\* a request carrying a header h, form fields f and a file part
Request(kind, target, h, f, payload) ==
    [kind |-> kind, target |-> target, auth |-> h.auth, cr |-> h.cr,
     filename |-> f.filename, comment |-> f.comment,
     parent_object_id |-> f.parent_object_id, md5 |-> f.md5,
     payload |-> payload]
NoResp == [status |-> 0, offset |-> 0, url |-> NoneStr, token |-> NoneStr]

\* the outcome of a wrapper call: which call, its key, the position it
\* started from, the data read, whether it raised
NoRet == [op |-> "none", key |-> NoneInt, from |-> 0, data |-> NoData, raised |-> FALSE]

Idle == {"idle", "done", "failed"}
Running == {"put_chunk", "post_complete", "post_upload"}
nReq == nAuth + nPut + nFinal + nPost

\* -------------------------------------------------------------------- Init
\* UploadTester.__init__ on a file of some size, with some chunk size, with
\* or without credentials
ClientInit ==
    /\ login \in BOOLEAN
    /\ filename = "a.zip"
    /\ md5 = generate_file_md5
    /\ parent_aoi = NoneStr
    /\ _url = NoneStr
    /\ _token = NoneStr
    /\ _header = NoHeader
    /\ pc = "idle"
    /\ chunk_mode = TRUE
    /\ failure = ""
    /\ last = NoReq
    /\ resp = NoResp
    /\ calls = 0
    /\ nAuth = 0 /\ nPut = 0 /\ nFinal = 0 /\ nPost = 0
    /\ errAt = 0
    /\ allOk = TRUE
    /\ sent = {}
    /\ authTotal = 0
    /\ issued = {}
    /\ putOk = FALSE
    /\ allocated = NoneStr
    /\ afterReset = FALSE
    /\ callFromReset = TRUE
    /\ resetArg = NoneStr
    /\ prevStart = NoneInt
    /\ acked = {}
    /\ printed = NoneStr
    /\ chunks = << >>
    /\ pure = TRUE
    /\ ret = NoRet

\* self.file = FileWrapper(self._file, blksize=chunksize): no bias, no end bound
FileInit ==
    /\ file_length \in 0..MaxSize
    /\ blocksize \in 1..MaxChunk
    /\ start = 0
    /\ end = NoneInt
    /\ pos = 0

\* a client constructed with the default comment and no parent
Init ==
    /\ FileInit
    /\ ClientInit
    /\ comment = ""
    /\ parent_arg = NoneStr
    /\ no_chunks = FALSE

\* ----------------------------------------------------------------- actions
\* the caller invokes upload(chunk_upload)
CallUpload(chunk_upload) ==
    /\ pc \in Idle
    /\ calls < MaxCalls
    /\ pc' = IF chunk_upload THEN "put_chunk" ELSE "post_upload"
    /\ chunk_mode' = chunk_upload
    /\ failure' = ""
    /\ calls' = calls + 1
    /\ nAuth' = 0 /\ nPut' = 0 /\ nFinal' = 0 /\ nPost' = 0
    /\ errAt' = 0
    /\ allOk' = TRUE
    /\ sent' = {}
    /\ callFromReset' = (afterReset \/ calls = 0)
    /\ afterReset' = FALSE
    /\ UNCHANGED <<fwvars, login, filename, md5, _url, _token, _header>>
    /\ UNCHANGED <<wirevars, authTotal, issued, putOk, allocated, resetArg, itervars>>
    /\ UNCHANGED <<prevStart, acked, cfgvars, printed>>

\* the token property: the authentication request and its response
Authenticate ==
    /\ pc \in Running
    /\ NeedsAuth
    /\ \E t \in Tokens \cup {NoneStr} :
        /\ last' = [NoReq EXCEPT !.kind = "auth", !.target = AUTHURL]
        /\ resp' = [NoResp EXCEPT !.status = CodesOk, !.token = t]
        /\ pc' = AfterAuth(t)
        /\ failure' = IF AfterAuth(t) = "failed" THEN "auth" ELSE failure
        /\ _token' = IF AfterAuth(t) = "failed" THEN _token ELSE t
        /\ issued' = IF t = NoneStr THEN issued ELSE issued \cup {t}
        /\ allOk' = (allOk /\ t # NoneStr)
    /\ nAuth' = nAuth + 1
    /\ authTotal' = authTotal + 1
    /\ UNCHANGED <<fwvars, login, filename, md5, _url, _header, chunk_mode>>
    /\ UNCHANGED <<calls, nPut, nFinal, nPost, errAt, sent>>
    /\ UNCHANGED <<putOk, allocated, afterReset, callFromReset, resetArg, itervars>>
    /\ UNCHANGED <<prevStart, acked, cfgvars, printed>>

\* one iteration of the loop of upload(): put_chunk and raise_for_status,
\* or StopIteration out of put_chunk
PutChunk ==
    /\ pc = "put_chunk"
    /\ ~NeedsAuth
    /\ LET current_position == pos
           hdr == [header EXCEPT
                     !.cr = <<current_position, chunkend(current_position), file_length>>]
           r == next
       IN /\ _header' = hdr
          /\ pos' = r.pos
          /\ IF r.raised
             THEN /\ pc' = "post_complete"
                  /\ UNCHANGED <<_url, failure, wirevars, nPut, errAt, allOk, sent>>
                  /\ UNCHANGED <<putOk, allocated, prevStart, acked>>
             ELSE \E status \in Statuses, offset \in 0..file_length, u \in ResourceUrls :
                  /\ last' = Request("put", url, hdr, params, r.data)
                  /\ resp' = [status |-> status, offset |-> offset, url |-> u,
                              token |-> NoneStr]
                  /\ _url' = UrlAfterPut(status, u)
                  /\ pc' = AfterPut(status)
                  /\ failure' = IF AfterPut(status) = "failed" THEN "http" ELSE failure
                  /\ nPut' = nPut + 1
                  /\ sent' = sent \cup Bytes(r.data)
                  /\ errAt' = IF errAt = 0 /\ status >= 400 THEN nReq + 1 ELSE errAt
                  /\ allOk' = (allOk /\ status < 400)
                  /\ putOk' = (putOk \/ status < 400)
                  /\ allocated' = IF ~putOk /\ status < 400 THEN u ELSE allocated
                  /\ prevStart' = current_position
                  /\ acked' = IF status < 400 THEN acked \cup Bytes(r.data) ELSE acked
    /\ UNCHANGED <<file_length, blocksize, start, end, login, filename, md5, _token>>
    /\ UNCHANGED <<calls, nAuth, nFinal, nPost, chunk_mode>>
    /\ UNCHANGED <<authTotal, issued, afterReset, callFromReset, resetArg, itervars>>
    /\ UNCHANGED <<cfgvars, printed>>

\* post_complete and raise_for_status
PostComplete ==
    /\ pc = "post_complete"
    /\ ~NeedsAuth
    /\ \E status \in Statuses :
        /\ last' = Request("final", url, header, paramsMd5, NoData)
        /\ resp' = [NoResp EXCEPT !.status = status]
        /\ pc' = AfterFinalize(status)
        /\ failure' = IF AfterFinalize(status) = "failed" THEN "http" ELSE failure
        /\ errAt' = IF errAt = 0 /\ status >= 400 THEN nReq + 1 ELSE errAt
        /\ allOk' = (allOk /\ status < 400)
    /\ _header' = header
    /\ nFinal' = nFinal + 1
    /\ UNCHANGED <<fwvars, login, filename, md5, _url, _token, chunk_mode>>
    /\ UNCHANGED <<calls, nAuth, nPut, nPost, sent, sessvars, itervars>>
    /\ UNCHANGED <<cfgvars, printed>>

\* post_upload and raise_for_status: the file part is the wrapper itself,
\* which the HTTP library reads from the current position to end of file
PostUpload ==
    /\ pc = "post_upload"
    /\ ~NeedsAuth
    /\ LET data == ReadFile(pos, -1)
       IN /\ pos' = data[2]
          /\ sent' = sent \cup Bytes(data)
          /\ \E status \in Statuses :
              /\ last' = Request("post", url, header, paramsMd5, data)
              /\ resp' = [NoResp EXCEPT !.status = status]
              /\ pc' = AfterPost(status)
              /\ failure' = IF AfterPost(status) = "failed" THEN "http" ELSE failure
              /\ errAt' = IF errAt = 0 /\ status >= 400 THEN nReq + 1 ELSE errAt
              /\ allOk' = (allOk /\ status < 400)
    /\ _header' = header
    /\ nPost' = nPost + 1
    /\ UNCHANGED <<file_length, blocksize, start, end, login, filename, md5, _url, _token>>
    /\ UNCHANGED <<calls, nAuth, nPut, nFinal, chunk_mode, sessvars, itervars>>
    /\ UNCHANGED <<cfgvars, printed>>

\* the caller invokes reset(new_name)
Reset(new_name) ==
    /\ pc \in Idle
    /\ _url' = NoneStr
    /\ filename' = IF new_name # NoneStr THEN new_name ELSE filename
    /\ pos' = seek(0)
    /\ afterReset' = TRUE
    /\ resetArg' = new_name
    /\ putOk' = FALSE
    /\ allocated' = NoneStr
    /\ prevStart' = NoneInt
    /\ acked' = {}
    /\ UNCHANGED <<cfgvars, printed>>
    /\ UNCHANGED <<file_length, blocksize, start, end, login, md5, _token, _header>>
    /\ UNCHANGED <<pc, chunk_mode, failure, wirevars, callvars>>
    /\ UNCHANGED <<authTotal, issued, callFromReset, itervars>>

Next ==
    \/ \E chunk_upload \in BOOLEAN : CallUpload(chunk_upload)
    \/ Authenticate
    \/ PutChunk
    \/ PostComplete
    \/ PostUpload
    \/ \E new_name \in Names \cup {NoneStr} : Reset(new_name)

Spec == Init /\ [][Next]_vars

\* ------------------------------------------------- the FileWrapper on its own
\* FileWrapper.__init__ with any bias and end bound; the file object is
\* positioned at start
WrapperInit ==
    /\ file_length \in 0..MaxSize
    /\ blocksize \in 1..MaxChunk
    /\ start \in 0..MaxBias
    /\ end \in {NoneInt} \cup (0..MaxSize)
    /\ pos = start
    /\ ClientInit
    /\ login = FALSE
    /\ comment = ""
    /\ parent_arg = NoneStr
    /\ no_chunks = FALSE

\* wrapper.next()
CallNext ==
    /\ pos <= MaxPos
    /\ LET r == next
       IN /\ pos' = r.pos
          /\ ret' = [op |-> "next", key |-> NoneInt, from |-> pos,
                     data |-> r.data, raised |-> r.raised]
          /\ chunks' = IF pure /\ ~r.raised THEN Append(chunks, r.data) ELSE chunks
    /\ UNCHANGED <<file_length, blocksize, start, end, pure>>
    /\ UNCHANGED <<clvars, wirevars, callvars, sessvars, cfgvars, printed>>

\* wrapper.seek(position)
CallSeek(position) ==
    /\ seek(position) <= MaxPos
    /\ pos' = seek(position)
    /\ pure' = FALSE
    /\ ret' = [NoRet EXCEPT !.op = "seek", !.key = position, !.from = pos]
    /\ UNCHANGED <<file_length, blocksize, start, end, chunks>>
    /\ UNCHANGED <<clvars, wirevars, callvars, sessvars, cfgvars, printed>>

\* wrapper[key]
CallGetItem(key) ==
    /\ pos <= MaxPos
    /\ LET r == getitem(key)
       IN /\ r.pos <= MaxPos
          /\ pos' = r.pos
          /\ ret' = [op |-> "getitem", key |-> key, from |-> pos,
                     data |-> r.data, raised |-> r.raised]
    /\ pure' = FALSE
    /\ UNCHANGED <<file_length, blocksize, start, end, chunks>>
    /\ UNCHANGED <<clvars, wirevars, callvars, sessvars, cfgvars, printed>>

WrapperNext ==
    \/ CallNext
    \/ \E position \in 0..MaxPos : CallSeek(position)
    \/ \E key \in 0..MaxSize : CallGetItem(key)

WrapperSpec == WrapperInit /\ [][WrapperNext]_vars

\* ------------------------------------------------------ the command line
\* main: the client is constructed from the parsed arguments
MainInit ==
    /\ FileInit
    /\ ClientInit
    /\ comment \in {NoneStr, "c"}
    /\ parent_arg \in {NoneStr, "p"}
    /\ no_chunks \in BOOLEAN

\* main: uploader.upload(chunk_upload=args.no_chunks)
MainUpload == calls = 0 /\ CallUpload(no_chunks)

\* main: print(... uploader.url), reached when upload() has returned
MainPrint ==
    /\ pc = "done"
    /\ printed = NoneStr
    /\ printed' = url
    /\ UNCHANGED <<fwvars, clvars, wirevars, callvars, sessvars, cfgvars, itervars>>

MainNext ==
    \/ MainUpload
    \/ Authenticate
    \/ PutChunk
    \/ PostComplete
    \/ PostUpload
    \/ MainPrint

MainSpec == MainInit /\ [][MainNext]_vars

\* ------------------------------------------------------------------ claims
UploadKinds == {"put", "final", "post"}
Ceil(a, b) == (a + b - 1) \div b
WholeFile == 0 .. (file_length - 1)

\* a step that issues a chunk PUT, a finalize POST, a single-shot POST
PutStep == nPut' = nPut + 1
FinalStep == nFinal' = nFinal + 1
PostStep == nPost' = nPost + 1

\* C1: whenever the success response to a chunk PUT reports offset o, the
\* next chunk PUT of the call has Content-Range start o and a payload read
\* from file offset o.
C1_ServerAuthoritative ==
    [][(/\ nPut >= 1
        /\ last.kind = "put"
        /\ resp.status < 400
        /\ PutStep)
       => (last'.cr[1] = resp.offset /\ last'.payload[1] = resp.offset)]_vars

\* C2: a chunked upload() call ends completed if and only if it issued a
\* finalize POST that got a non-error status; no finalize is issued while
\* the call is still running, so chunk successes alone never complete it.
C2_FinalizeGating ==
    /\ (chunk_mode /\ calls >= 1 /\ pc \in Idle)
         => (pc = "done" <=> (nFinal = 1 /\ last.kind = "final" /\ resp.status < 400))
    /\ (chunk_mode /\ pc \in Running) => nFinal = 0

\* C2 witness: every chunk PUT succeeded, the finalize POST got an error
\* status, and the call ended failed.
C2_Witness ==
    /\ chunk_mode /\ pc = "failed"
    /\ nPut = 2 /\ nFinal = 1
    /\ errAt = nReq
    /\ last.kind = "final" /\ resp.status >= 400

\* C3: resource_url is unset until a chunk PUT got a success status, and
\* once one has, every later chunk PUT and finalize POST of the session goes
\* to the url the server allocated, never to the collection endpoint.
C3_ResourceUrlTargeting ==
    /\ [](_url # NoneStr => putOk)
    /\ [][(putOk /\ (PutStep \/ FinalStep))
          => (last'.target = allocated /\ last'.target # UPLOADURL)]_vars

\* C4: iterating next() from offset 0 (no bias, no end bound, nothing else
\* called) on a file of size S >= 1 yields the blocks [0,C), [C,2C), ... in
\* order, each of length C except that the last has length S mod C (C when
\* that is 0); end-of-sequence comes only with the cursor at S, after the
\* blocks have covered [0,S) exactly.
C4_ChunkCoverage ==
    (pure /\ start = 0 /\ end = NoneInt /\ file_length >= 1) =>
       /\ \A i \in 1..Len(chunks) :
            /\ chunks[i][1] = (i - 1) * blocksize
            /\ chunks[i][2] = IF i * blocksize < file_length
                              THEN i * blocksize ELSE file_length
            /\ chunks[i][1] < chunks[i][2]
       /\ ret.raised =>
            /\ pos = file_length
            /\ Len(chunks) = Ceil(file_length, blocksize)
            /\ UNION {Bytes(chunks[i]) : i \in 1..Len(chunks)} = WholeFile
            /\ LET tail == chunks[Len(chunks)]
               IN tail[2] - tail[1] =
                    IF file_length % blocksize = 0 THEN blocksize
                    ELSE file_length % blocksize

\* C4 witness: a file of 3 bytes in blocks of 2 iterated to end-of-sequence,
\* the last block short.
C4_Witness ==
    /\ pure /\ start = 0 /\ end = NoneInt
    /\ file_length = 3 /\ blocksize = 2
    /\ ret.raised
    /\ chunks = <<(<<0, 2>>), (<<2, 3>>)>>

\* C5: the first upload(chunk_upload=True) of a client always terminates;
\* when every response was a success it ends completed, after exactly
\* ceil(S/C) chunk PUTs and then exactly one finalize POST, the finalize being
\* the last request of the call.
C5_SequenceAndTermination ==
    /\ []((calls = 1 /\ chunk_mode /\ pc \in Idle /\ allOk) =>
            /\ pc = "done"
            /\ nPut = Ceil(file_length, blocksize)
            /\ nFinal = 1
            /\ nPost = 0
            /\ last.kind = "final")
    /\ []((chunk_mode /\ nFinal >= 1) => (pc \in Idle /\ last.kind = "final"))
    /\ ((pc \in Running) ~> (pc \in Idle))

\* C5 witness: 3 bytes in chunks of 2, all responses success: two PUTs, one
\* finalize, completed.
C5_Witness ==
    /\ calls = 1 /\ chunk_mode /\ allOk /\ pc = "done"
    /\ file_length = 3 /\ blocksize = 2
    /\ nPut = 2 /\ nFinal = 1

\* C6: once a chunk PUT, finalize POST or single-shot POST of a call has
\* got an error status, the call has failed and that request is the last
\* one the call issues.
C6_AbortOnError ==
    errAt # 0 => (pc = "failed" /\ failure = "http" /\ nReq = errAt
                  /\ last.kind \in UploadKinds /\ resp.status >= 400)

\* C6 witness: the second chunk of a call got an error after the first had
\* succeeded; nothing was re-sent and no finalize followed.
C6_Witness ==
    /\ errAt # 0 /\ nPut = 2 /\ nFinal = 0 /\ nPost = 0
    /\ pos < file_length
    /\ last.kind = "put" /\ pc = "failed"

\* C7: when the authentication response has no token, upload() fails with
\* the authentication error before any chunk PUT, finalize POST or
\* single-shot POST, nothing is cached, and the next request the client
\* issues is again an authentication request.
C7_AuthFailureBlocks ==
    /\ []((last.kind = "auth" /\ resp.token = NoneStr) =>
            /\ _token = NoneStr
            /\ ~TruthyHeader(_header)
            /\ nPut = 0 /\ nFinal = 0 /\ nPost = 0
            /\ putOk = FALSE
            /\ (nAuth >= 1 => (pc = "failed" /\ failure = "auth"))
            /\ (pc \in Running => NeedsAuth))
    /\ [][(last.kind = "auth" /\ resp.token = NoneStr /\ last' # last)
          => last'.kind = "auth"]_vars

\* C7 witness: a second upload() call after a failed authentication has
\* authenticated again, and failed again, without sending anything.
C7_Witness ==
    /\ login /\ calls = 2 /\ nAuth = 1 /\ authTotal = 2
    /\ last.kind = "auth" /\ resp.token = NoneStr
    /\ pc = "failed" /\ failure = "auth"

\* C8: without credentials no authentication request is ever issued and no
\* chunk, finalize or single-shot request carries Authorization; with
\* credentials each of them carries 'Token t', t a token the server returned.
C8_AnonymousMode ==
    /\ ~login => (authTotal = 0 /\ last.kind # "auth"
                  /\ (last.kind \in UploadKinds => last.auth = << >>))
    /\ (login /\ last.kind \in UploadKinds) =>
          (/\ Len(last.auth) = 2
           /\ last.auth[1] = "Token"
           /\ last.auth[2] \in issued
           /\ last.auth[2] = _token)

\* C8 witness: an anonymous client has finalized a second upload, after a
\* reset, without ever authenticating.
C8_Witness ==
    /\ ~login /\ calls = 2 /\ callFromReset
    /\ last.kind = "final" /\ last.auth = << >> /\ pc = "done"

\* C9: upload(chunk_upload=False), in whatever state the client is, issues
\* exactly one POST and no PUT, to the collection endpoint, carrying the whole
\* file [0,S) and the checksum; the call succeeds iff the POST got a
\* non-error status.
C9_SingleShot ==
    (~chunk_mode /\ nPost >= 1) =>
        /\ nPost = 1 /\ nPut = 0 /\ nFinal = 0
        /\ last.kind = "post"
        /\ last.target = UPLOADURL
        /\ Bytes(last.payload) = WholeFile
        /\ last.md5 = md5
        /\ pc \in Idle
        /\ (pc = "done" <=> resp.status < 400)

\* C10: reset() leaves resource_url unset and the cursor at 0, so the next
\* chunk PUT goes to the collection endpoint with Content-Range start 0 and a
\* completed upload started from there has sent the whole file; requests
\* carry the current filename, which only reset(new_name) with a name
\* changes; reset leaves token, checksum and declared size alone.
C10_ResetFrame ==
    /\ [](afterReset => (_url = NoneStr /\ pos = 0 /\ pc \in Idle))
    /\ []((callFromReset /\ calls >= 1 /\ nPut = 1 /\ last.kind = "put")
            => (last.target = UPLOADURL /\ last.cr[1] = 0 /\ last.payload[1] = 0))
    /\ []((callFromReset /\ calls >= 1 /\ pc = "done") => sent = WholeFile)
    /\ []((nReq >= 1 /\ ~afterReset /\ last.kind \in UploadKinds)
            => last.filename = filename)
    /\ [][(pc \in Idle /\ pc' \in Idle) =>
            /\ UNCHANGED <<_token, md5, file_length>>
            /\ (afterReset' /\ resetArg' = NoneStr) => filename' = filename
            /\ (afterReset' /\ resetArg' # NoneStr) => filename' = resetArg']_vars
    /\ [][filename' # filename => (pc \in Idle /\ pc' \in Idle /\ afterReset')]_vars

\* C10 witness: an upload failed after its first chunk, reset("b.zip") was
\* called, and a second chunked upload then completed under the new name.
C10_Witness ==
    /\ calls = 2 /\ callFromReset /\ chunk_mode /\ pc = "done"
    /\ file_length = 3 /\ blocksize = 2
    /\ resetArg = "b.zip" /\ last.filename = "b.zip"
    /\ sent = WholeFile

\* C11: every chunk PUT carries Content-Range <<start, end, total>> with
\* start the cursor the chunk was read from, end = min(start + chunk size,
\* declared size), total the declared size, and its payload is exactly the
\* file bytes [start, end), the short final chunk included.
C11_ContentRange ==
    /\ [](last.kind = "put" =>
            /\ Len(last.cr) = 3
            /\ last.cr[1] = last.payload[1]
            /\ last.cr[2] = last.payload[2]
            /\ last.cr[2] = (IF last.cr[1] + blocksize < file_length
                             THEN last.cr[1] + blocksize ELSE file_length)
            /\ last.cr[3] = file_length
            /\ last.cr[1] < last.cr[2]
            /\ Cardinality(Bytes(last.payload)) = last.cr[2] - last.cr[1])
    /\ [][PutStep => last'.cr[1] = pos]_vars

\* C11 witness: the short final chunk [2,3) of a 3-byte file sent in chunks
\* of 2.
C11_Witness ==
    /\ last.kind = "put" /\ blocksize = 2 /\ file_length = 3
    /\ last.cr = <<2, 3, 3>> /\ last.payload = <<2, 3>>

\* C12: run without --no-chunks the program uploads with the chunked
\* protocol (chunk PUTs, then a finalize POST); run with --no-chunks it
\* uploads in a single POST and issues no PUT; the url printed on success is
\* the resource url the server allocated.
C12_CliModeSelection ==
    /\ (calls >= 1 /\ ~no_chunks) =>
          (/\ nPost = 0
           /\ (pc = "done" => (last.kind = "final" /\ nFinal = 1)))
    /\ (calls >= 1 /\ no_chunks) =>
          (/\ nPut = 0 /\ nFinal = 0
           /\ (pc = "done" => (last.kind = "post" /\ nPost = 1)))
    /\ printed # NoneStr => (printed \in ResourceUrls /\ printed = allocated)

\* C13: the cursor always lies in [0, declared size]; it decreases only in
\* reset(); so within a session each chunk PUT has a Content-Range start
\* strictly greater than that of the chunk PUT before it.
C13_OffsetBoundsMonotone ==
    /\ [](0 <= pos /\ pos <= file_length)
    /\ [][pos' < pos => (pc \in Idle /\ pc' \in Idle /\ afterReset')]_vars
    /\ [][(PutStep /\ prevStart # NoneInt) => last'.cr[1] > prevStart]_vars

\* C13 witness: a second upload() call, made without reset() after the first
\* call sent two chunks, has sent the chunk starting at 2.
C13_Witness ==
    /\ calls = 2 /\ ~callFromReset /\ chunk_mode
    /\ file_length = 3 /\ blocksize = 1
    /\ nPut = 1 /\ last.kind = "put" /\ prevStart = 2 /\ pos = 3

\* C14: once an authentication request has returned a token, the client
\* issues no further authentication request, whatever chunk PUTs, finalize,
\* single-shot uploads and reset() calls follow, keeps that token, and sends
\* it on every later request; so at most one authentication succeeds.
C14_TokenCaching ==
    /\ [](Cardinality(issued) <= 1)
    /\ [](_token # NoneStr => issued = {_token})
    /\ []((_token # NoneStr /\ last.kind \in UploadKinds)
            => last.auth = <<"Token", _token>>)
    /\ [][_token # NoneStr =>
            (authTotal' = authTotal /\ _token' = _token /\ issued' = issued)]_vars

\* C14 witness: after one authentication, a failed upload, a reset and a
\* second, completed upload, there has still been one authentication only.
C14_Witness ==
    /\ login /\ authTotal = 1 /\ calls = 2 /\ callFromReset
    /\ nAuth = 0 /\ pc = "done" /\ last.kind = "final"
    /\ last.auth = <<"Token", _token>>

\* C15: when a chunk PUT for [a, b) got an error status and upload() is
\* called again without reset(), the first PUT of the new call starts at a;
\* and whenever a finalize POST is issued, the chunk PUTs of the session that
\* got a success status cover [0, declared size).
C15_ResumeLosesNoBytes ==
    /\ [][(/\ last.kind = "put"
           /\ resp.status >= 400
           /\ ~callFromReset
           /\ PutStep)
          => last'.cr[1] = last.cr[1]]_vars
    /\ [][FinalStep => acked = WholeFile]_vars

\* C16: for a wrapper configured with an end bound E >= 0, after any sequence
\* of seek and next calls, next never returns a byte at a file position >= E,
\* and with the cursor at or beyond E it signals the end of the sequence.
C16_EndBoundClamping ==
    (ret.op = "next" /\ end # NoneInt) =>
        /\ \A b \in Bytes(ret.data) : ret.raised \/ b < end
        /\ ret.from >= end => ret.raised

\* C17: the finalize POST carries only the Authorization header, or no header
\* in anonymous mode, and never a Content-Range header left over from a chunk
\* PUT; the same holds for the single-shot POST.
C17_FinalizeHeaders ==
    last.kind \in {"final", "post"} =>
        /\ last.cr = << >>
        /\ last.auth = (IF login THEN <<"Token", _token>> ELSE << >>)

\* C18: every chunk PUT, finalize POST and single-shot POST carries the form
\* fields filename, comment and parent_object_id equal to the values the
\* client was configured with; with a parent identifier p supplied at
\* construction, parent_object_id = p on every request.
C18_UploadParameters ==
    last.kind \in UploadKinds =>
        /\ last.filename = filename
        /\ last.comment = comment
        /\ last.parent_object_id = parent_arg

\* C19: wrapper[k] returns exactly the k-th block, the file bytes
\* [start + k*B, min(start + (k+1)*B, S)), for every k >= 0 with k*B < S and
\* every start bias, and leaves the read cursor where it was before the call.
C19_IndexedRead ==
    (/\ ret.op = "getitem"
     /\ end = NoneInt
     /\ ret.key * blocksize < file_length
     /\ start + ret.key * blocksize < file_length) =>
        /\ ~ret.raised
        /\ ret.data[1] = start + ret.key * blocksize
        /\ ret.data[2] = (IF start + (ret.key + 1) * blocksize < file_length
                          THEN start + (ret.key + 1) * blocksize
                          ELSE file_length)
        /\ pos = ret.from

\* C20: the checksum is computed once, at construction and before any request,
\* from the whole file, and never changes over any sequence of upload() and
\* reset() calls; every finalize POST and single-shot POST carries that value
\* in the md5 field, and no chunk PUT carries an md5 field.
C20_ChecksumFixed ==
    /\ [](md5 = <<"md5", 0, file_length>>)
    /\ [][md5' = md5]_vars
    /\ [](last.kind \in {"final", "post"} => last.md5 = md5)
    /\ [](last.kind = "put" => last.md5 = << >>)

\* after a reset, the finalize POST of a second chunked upload of a file of
\* three bytes carries the checksum of the whole file
C20_Witness ==
    /\ calls = 2
    /\ callFromReset
    /\ file_length = 3
    /\ nFinal = 1
    /\ last.kind = "final"
    /\ last.md5 = <<"md5", 0, 3>>
    /\ pc = "done"

\* ------------------------------------------------ one call on a fresh client
\* the first upload() call of a client
FirstUpload(chunk_upload) == calls = 0 /\ CallUpload(chunk_upload)

FreshNext ==
    \/ \E chunk_upload \in BOOLEAN : FirstUpload(chunk_upload)
    \/ Authenticate
    \/ PutChunk
    \/ PostComplete
    \/ PostUpload
    \/ \E new_name \in Names \cup {NoneStr} : Reset(new_name)

\* upload() is synchronous: once called it runs each of its steps, every
\* request being answered
FreshSpec ==
    /\ Init
    /\ [][FreshNext]_vars
    /\ WF_vars(Authenticate \/ PutChunk \/ PostComplete \/ PostUpload)

====
